---- MODULE Spec2Model ----
(***************************************************************************)
(* Model of minigrep's search pipeline: App::execute drives                *)
(* Searcher::search_path / search_reader, which feed every line of every   *)
(* stream through the Matcher into a per-stream ContextManager, which in   *)
(* turn calls the Sink (matched / context / context_break); finish is      *)
(* called on the sink at the end of execute.                               *)
(***************************************************************************)
EXTENDS Integers, Sequences, FiniteSets, TLC

(* ---------------------------------------------------------------- bounds *)
NumPaths == 2        \* files below the target directory
MaxLines == 4        \* lines read in one run, over all streams
MaxCtx   == 2        \* largest value of the -A / -B / -C flags
MaxCalls == 3        \* calls made on a sink that is driven directly
MaxFrag  == 2        \* fragments of one only-matching result
MaxQuery == 2        \* tokens of a query
MaxText  == 3        \* characters of the contents of a file
MaxLine  == 4        \* characters of a line given to a matcher

Paths == 1..NumPaths             \* a path is its rank in PathBuf's ordering
StdinPath == 0                   \* Path::new("stdin") of search_reader
NoPath == StdinPath - 1          \* a sink call that carries no path

(* ------------------------------------------------------- program's types *)
OutputMode == {"Standard", "Json", "Count", "FilesWithMatches", "FilesWithoutMatch"}
Targets    == {"stdin", "file", "dir"}   \* config.path: None, a file, a directory
EntryKinds == {"text", "binary", "openfail", "hidden"}

VARIABLES
    config,               \* Config: target and the three context flags
    output_mode,          \* App.output_mode
    pc,                   \* position in App::execute: start, walk, stream, done
    result,               \* what execute returned: none (running), Ok, Err
    before_len, after_len,\* the locals of execute handed to the searcher
    sink_built,           \* SearcherBuilder::build ran
    all_files,            \* FilesWithoutMatchSink.all_files
    files_with_matches,   \* FilesWithoutMatchSink.files_with_matches
    matched_files,        \* FilesWithMatchesSink.matched_files
    counts,               \* CountSink.counts
    matches,              \* JsonSink.matches
    stdout,               \* what the sink printed
    finish_calls,         \* number of Sink::finish calls
    visited,              \* entries the walker has yielded so far
    entry_kind,           \* what each yielded entry turned out to be
    cur,                  \* ContextManager.path of the stream being read
    line_num,             \* lines read from the current stream
    total_read,           \* lines read in the run
    before_buffer,        \* ContextManager.before_buffer
    after_countdown,      \* ContextManager.after_countdown
    last_match_line_num,  \* ContextManager.last_match_line_num
    lines,                \* per path, the classification of the lines read
    log,                  \* the calls made on the sink, in order
    non_utf8,             \* the paths whose name is not valid UTF-8
    query,                \* the query string, a sequence of tokens
    ignore_case,          \* the ignore_case flag
    invert_match,         \* the invert_match flag
    re,                   \* a compiled Regex
    input_line,           \* the line handed to Matcher::find
    contents,             \* the contents handed to search
    found                 \* what find / search returned

vars == <<config, output_mode, pc, result, before_len, after_len, sink_built,
          all_files, files_with_matches, matched_files, counts, matches,
          stdout, finish_calls, visited, entry_kind, cur, line_num,
          total_read, before_buffer, after_countdown, last_match_line_num,
          lines, log, non_utf8, query, ignore_case, invert_match, re,
          input_line, contents, found>>

cmVars   == <<before_buffer, after_countdown, last_match_line_num>>
sinkVars == <<files_with_matches, matched_files, counts, matches>>
walkVars == <<visited, entry_kind>>
reVars   == <<query, ignore_case, invert_match, re, input_line, contents>>
auxVars  == <<non_utf8, reVars, found>>
cfgVars  == <<config, output_mode, before_len, after_len, sink_built, all_files,
              auxVars>>

(* ------------------------------------------------------------- helpers *)
Min(S) == CHOOSE x \in S : \A y \in S : x <= y

RECURSIVE SortedSeq(_)
\* collect into a Vec, then Vec::sort: ascending, each element once
SortedSeq(S) == IF S = {} THEN <<>>
                ELSE LET m == Min(S) IN <<m>> \o SortedSeq(S \ {m})

\* the text of a line, as an opaque token
Content(path, n) == <<path, n>>

\* the files below the target: the walk of a file yields only that file
Tree(target) == IF target = "dir" THEN Paths ELSE {1}

Config_get_effective_context(c) ==
    IF c.context > 0 THEN <<c.context, c.context>>
    ELSE <<c.after_context, c.before_context>>

(* ----------------------------------------------------------------- regex *)
\* the characters of the texts; a query is made of these tokens and of the
\* metacharacters . + (
TextChars  == {"a", "A", "b"}
QueryChars == {"a", "A", ".", "+", "("}
NewLine    == "\n"

UpperCase == <<"A", "B", "C", "D", "E", "F", "G", "H", "I", "J", "K", "L", "M",
               "N", "O", "P", "Q", "R", "S", "T", "U", "V", "W", "X", "Y", "Z">>
LowerCase == <<"a", "b", "c", "d", "e", "f", "g", "h", "i", "j", "k", "l", "m",
               "n", "o", "p", "q", "r", "s", "t", "u", "v", "w", "x", "y", "z">>

CaseFold_Identity(c) == {c}

\* the characters equal to c up to case (simple case folding)
CaseFold(c) ==
    {c} \cup {LowerCase[i] : i \in {j \in 1..26 : UpperCase[j] = c}}
        \cup {UpperCase[i] : i \in {j \in 1..26 : LowerCase[j] = c}}

SeqsUpTo(S, n) == UNION {[1..k -> S] : k \in 0..n}

RegexError == [ok |-> FALSE, atoms |-> << >>]

RECURSIVE Parse(_, _, _, _)
\* RegexBuilder::new(query).case_insensitive(ic).build(): an unclosed group
\* and a repetition with nothing to repeat are errors; otherwise a sequence
\* of atoms, each a character class that is or is not repeated (greedily)
Parse(q, ic, i, acc) ==
    IF i > Len(q) THEN [ok |-> TRUE, atoms |-> acc]
    ELSE IF q[i] = "(" THEN RegexError
    ELSE IF q[i] = "+" THEN
        IF acc = << >> THEN RegexError
        ELSE Parse(q, ic, i + 1, [acc EXCEPT ![Len(acc)].plus = TRUE])
    ELSE IF q[i] = "." THEN
        Parse(q, ic, i + 1,
              Append(acc, [any |-> TRUE, chars |-> {}, plus |-> FALSE]))
    ELSE
        Parse(q, ic, i + 1,
              Append(acc, [any |-> FALSE,
                           chars |-> IF ic THEN CaseFold(q[i]) ELSE {q[i]},
                           plus |-> FALSE]))

RegexBuilder_build(q, ic) == Parse(q, ic, 1, << >>)
Regex_new(q) == RegexBuilder_build(q, FALSE)

AtomAccepts(a, c) == a.any \/ c \in a.chars
NoMatch == 0 - 1

RECURSIVE MatchFrom(_, _, _, _)
RECURSIVE Repeat(_, _, _, _)
\* where the match of the atoms k.. of r that the engine prefers ends, when
\* it starts at offset pos of l (offsets count characters from 0)
MatchFrom(r, k, l, pos) ==
    IF k > Len(r) THEN pos
    ELSE IF pos >= Len(l) \/ ~AtomAccepts(r[k], l[pos + 1]) THEN NoMatch
    ELSE IF r[k].plus THEN Repeat(r, k, l, pos + 1)
    ELSE MatchFrom(r, k + 1, l, pos + 1)

\* atom k is repeated and has taken at least one character: take one more
\* if the rest then matches, else go on with the next atom
Repeat(r, k, l, pos) ==
    LET more == IF pos < Len(l) /\ AtomAccepts(r[k], l[pos + 1])
                THEN Repeat(r, k, l, pos + 1) ELSE NoMatch
    IN  IF more # NoMatch THEN more ELSE MatchFrom(r, k + 1, l, pos)

Regex_is_match(r, l) == \E s \in 0..Len(l) : MatchFrom(r, 1, l, s) # NoMatch

RECURSIVE Regex_find_iter(_, _, _)
\* the matches at or after offset at, leftmost first; an empty match moves
\* the search on by one character
Regex_find_iter(r, l, at) ==
    LET starts == {s \in at..Len(l) : MatchFrom(r, 1, l, s) # NoMatch}
    IN  IF starts = {} THEN << >>
        ELSE LET s == Min(starts)
                 e == MatchFrom(r, 1, l, s)
             IN  <<SubSeq(l, s + 1, e)>>
                 \o Regex_find_iter(r, l, IF e = s THEN e + 1 ELSE e)

(* --------------------------------------------------------------- matchers *)
\* MatchResult::Line(line), MatchResult::Content(matches), and the content of
\* a ContextLine; NoData for a call without an argument
MR_Line(l)     == [kind |-> "Line", text |-> <<l>>]
MR_Content(ms) == [kind |-> "Content", text |-> ms]
CtxData(c)     == [kind |-> "Context", text |-> <<c>>]
NoData         == [kind |-> "None", text |-> << >>]

None      == [some |-> FALSE]
Some(v)   == [some |-> TRUE, value |-> v]
NotCalled == [fn |-> "none"]

DefaultMatcher_find_IgnoresInvert(r, inv, l) ==
    IF Regex_is_match(r, l) THEN Some(MR_Line(l)) ELSE None

DefaultMatcher_find(r, inv, l) ==
    LET is_match == Regex_is_match(r, l)
    IN  IF (is_match /\ ~inv) \/ (~is_match /\ inv)
        THEN Some(MR_Line(l)) ELSE None

OnlyMatchingMatcher_find_EmptyList(r, l) ==
    Some(MR_Content(Regex_find_iter(r, l, 0)))

OnlyMatchingMatcher_find(r, l) ==
    LET ms == Regex_find_iter(r, l, 0)
    IN  IF ms = << >> THEN None ELSE Some(MR_Content(ms))

\* no regex, matcher or search is in use
NoSearch ==
    /\ query = << >>
    /\ ignore_case = FALSE
    /\ invert_match = FALSE
    /\ re = << >>
    /\ input_line = << >>
    /\ contents = << >>
    /\ found = NotCalled

(* ------------------------------------------------------------------ Init *)
\* the command lines of the runs: -C alone, or -A and -B
ConfigSpace ==
    {c \in [target : Targets, context : 0..MaxCtx,
            after_context : 0..MaxCtx, before_context : 0..MaxCtx] :
        c.context = 0 \/ (c.after_context = 0 /\ c.before_context = 0)}

Init ==
    /\ config \in ConfigSpace
    /\ output_mode \in OutputMode
    /\ pc = "start"
    /\ result = "none"
    /\ before_len = 0
    /\ after_len = 0
    /\ sink_built = FALSE
    /\ all_files = {}
    /\ files_with_matches = {}
    /\ matched_files = {}
    /\ counts = << >>
    /\ matches = << >>
    /\ stdout = << >>
    /\ finish_calls = 0
    /\ visited = {}
    /\ entry_kind = << >>
    /\ cur = StdinPath
    /\ line_num = 0
    /\ total_read = 0
    /\ before_buffer = << >>
    /\ after_countdown = 0
    /\ last_match_line_num = 0
    /\ lines = << >>
    /\ log = << >>
    /\ non_utf8 = {}
    /\ NoSearch


(* ------------------------------------------------------ Output Formatter *)
format_prefix_AlwaysPath(target, file_path, line_number, context_kind) ==
    [path |-> <<file_path>>,
     line |-> line_number,
     sep  |-> IF context_kind = "None" THEN ":" ELSE "-"]

\* OutputFormatter::format_prefix: the path only for a directory target, the
\* line number always, ":" for a match and "-" for a context line
format_prefix(target, file_path, line_number, context_kind) ==
    [path |-> IF target = "dir" THEN <<file_path>> ELSE << >>,
     line |-> line_number,
     sep  |-> IF context_kind = "None" THEN ":" ELSE "-"]

(* ------------------------------------------------------------------ Sink *)
\* one call on the Sink trait, with its argument and the ControlFlow it
\* returned
Ev(ev, path, line, kind, ret, data) ==
    [ev |-> ev, path |-> path, line |-> line, kind |-> kind, ret |-> ret,
     data |-> data]

\* the ControlFlow returned by matched, per sink
Sink_matched_ret(mode) ==
    IF mode = "FilesWithMatches" THEN "Break" ELSE "Continue"

\* StandardSink prints on every call; the other sinks print in finish only
\* a whole line or a context line is one printed line, an only-matching
\* result is one printed line per fragment
StandardSink_print(target, e) ==
    IF e.ev = "context_break"
    THEN <<[tag |-> "--", prefix |-> << >>, text |-> << >>]>>
    ELSE LET prefix == format_prefix(target, e.path, e.line,
                           IF e.ev = "matched" THEN "None" ELSE e.kind)
         IN  [i \in 1..Len(e.data.text) |->
                 [tag |-> "line", prefix |-> <<prefix>>,
                  text |-> <<e.data.text[i]>>]]

CountSink_matched_PerFragment(c, path, mr) ==
    IF path \in DOMAIN c THEN [c EXCEPT ![path] = @ + Len(mr.text)]
    ELSE c @@ (path :> Len(mr.text))

\* one increment per call, whatever the match result holds
CountSink_matched(c, path, mr) ==
    IF path \in DOMAIN c THEN [c EXCEPT ![path] = @ + 1] ELSE c @@ (path :> 1)

JsonSink_matched_FirstFragment(m, path, line_number, mr) ==
    Append(m, [path |-> path, line_number |-> line_number,
               content |-> [kind |-> "Line", text |-> <<mr.text[1]>>]])

\* JsonContent::Line(l.to_string()) or JsonContent::Matches(the fragments)
JsonSink_matched(m, path, line_number, mr) ==
    Append(m, [path |-> path, line_number |-> line_number,
               content |-> IF mr.kind = "Line"
                           THEN [kind |-> "Line", text |-> mr.text]
                           ELSE [kind |-> "Matches", text |-> mr.text]])

RECURSIVE SumCounts(_, _)
SumCounts(c, ps) == IF ps = << >> THEN 0
                    ELSE c[Head(ps)] + SumCounts(c, Tail(ps))

CountSink_finish_TotalAlways(c) ==
    LET sorted_paths == SortedSeq(DOMAIN c)
    IN  [i \in 1..Len(sorted_paths) |->
            [tag |-> "count", prefix |-> <<sorted_paths[i]>>,
             text |-> <<c[sorted_paths[i]]>>]]
        \o (IF Cardinality(DOMAIN c) >= 1
            THEN <<[tag |-> "Total", prefix |-> << >>,
                    text |-> <<SumCounts(c, sorted_paths)>>]>>
            ELSE << >>)

CountSink_finish(c) ==
    LET sorted_paths == SortedSeq(DOMAIN c)
        print_total  == Cardinality(DOMAIN c) > 1
    IN  [i \in 1..Len(sorted_paths) |->
            [tag |-> "count", prefix |-> <<sorted_paths[i]>>,
             text |-> <<c[sorted_paths[i]]>>]]
        \o (IF print_total
            THEN <<[tag |-> "Total", prefix |-> << >>,
                    text |-> <<SumCounts(c, sorted_paths)>>]>>
            ELSE << >>)

FilesWithMatchesSink_finish_Descending(mf) ==
    LET sorted_files == SortedSeq(mf)
        n == Len(sorted_files)
    IN  [i \in 1..n |->
            [tag |-> "file", prefix |-> <<sorted_files[n + 1 - i]>>,
             text |-> << >>]]

FilesWithMatchesSink_finish(mf) ==
    LET sorted_files == SortedSeq(mf)
    IN  [i \in 1..Len(sorted_files) |->
            [tag |-> "file", prefix |-> <<sorted_files[i]>>, text |-> << >>]]

\* serde serializes a PathBuf only when it is valid UTF-8
Serializable(m, bad) == \A i \in DOMAIN m : m[i].path \notin bad

\* "[]" for no record; else the pretty-printed array, or, when
\* to_string_pretty fails, a message on the error stream only
JsonSink_finish(m, bad) ==
    IF m = << >> THEN <<[tag |-> "json", prefix |-> << >>, text |-> << >>]>>
    ELSE IF Serializable(m, bad)
         THEN <<[tag |-> "json", prefix |-> << >>, text |-> m]>>
         ELSE << >>

FilesWithoutMatchSink_finish_NoDifference(all, with) ==
    LET files == SortedSeq(all)
    IN  [i \in 1..Len(files) |->
            [tag |-> "file", prefix |-> <<files[i]>>, text |-> << >>]]

FilesWithoutMatchSink_finish(all, with) ==
    LET files_without_matches == SortedSeq(all \ with)
    IN  [i \in 1..Len(files_without_matches) |->
            [tag |-> "file", prefix |-> <<files_without_matches[i]>>,
             text |-> << >>]]

Sink_finish(mode) ==
    CASE mode = "Standard"          -> << >>
      [] mode = "Json"              -> JsonSink_finish(matches, non_utf8)
      [] mode = "Count"             -> CountSink_finish(counts)
      [] mode = "FilesWithMatches"  -> FilesWithMatchesSink_finish(matched_files)
      [] mode = "FilesWithoutMatch" ->
            FilesWithoutMatchSink_finish(all_files, files_with_matches)

RECURSIVE PrintAll(_, _)
PrintAll(target, evs) ==
    IF evs = << >> THEN << >>
    ELSE StandardSink_print(target, Head(evs)) \o PrintAll(target, Tail(evs))

Deliver_Reversed(evs, hasMatch, path, n, mr) ==
    LET rev == [i \in DOMAIN evs |-> evs[Len(evs) + 1 - i]]
    IN  /\ log' = log \o rev
        /\ stdout' = IF output_mode = "Standard"
                     THEN stdout \o PrintAll(config.target, rev) ELSE stdout
        /\ matched_files' = IF hasMatch /\ output_mode = "FilesWithMatches"
                            THEN matched_files \cup {path} ELSE matched_files
        /\ files_with_matches' = IF hasMatch /\ output_mode = "FilesWithoutMatch"
                                 THEN files_with_matches \cup {path}
                                 ELSE files_with_matches
        /\ counts' = IF hasMatch /\ output_mode = "Count"
                     THEN CountSink_matched(counts, path, mr) ELSE counts
        /\ matches' = IF hasMatch /\ output_mode = "Json"
                      THEN JsonSink_matched(matches, path, n, mr) ELSE matches

\* the sink receives the calls evs (context_break and context calls, and at
\* most one matched call, for line n of path)
Deliver(evs, hasMatch, path, n, mr) ==
    /\ log' = log \o evs
    /\ stdout' = IF output_mode = "Standard"
                 THEN stdout \o PrintAll(config.target, evs) ELSE stdout
    /\ matched_files' = IF hasMatch /\ output_mode = "FilesWithMatches"
                        THEN matched_files \cup {path} ELSE matched_files
    /\ files_with_matches' = IF hasMatch /\ output_mode = "FilesWithoutMatch"
                             THEN files_with_matches \cup {path}
                             ELSE files_with_matches
    /\ counts' = IF hasMatch /\ output_mode = "Count"
                 THEN CountSink_matched(counts, path, mr) ELSE counts
    /\ matches' = IF hasMatch /\ output_mode = "Json"
                  THEN JsonSink_matched(matches, path, n, mr) ELSE matches

(* -------------------------------------------------------- ContextManager *)
BreakNeeded_NoFirstMatchTest(b_len, a_len, last, n) ==
    (b_len > 0 \/ a_len > 0) /\ n > last + a_len + 1

\* handle_match: the condition of the context_break call
BreakNeeded(b_len, a_len, last, n) ==
    LET context_enabled == b_len > 0 \/ a_len > 0
    IN  context_enabled /\ last > 0 /\ n > last + a_len + 1

BeforeFlush_NoFilter(buffer, last) == buffer

\* handle_match: the buffered lines that are delivered as Before context
BeforeFlush(buffer, last) ==
    SelectSeq(buffer, LAMBDA b : b[1] > last)

AfterDue_Always(countdown) == TRUE

\* handle_non_match: whether the line is delivered as After context
AfterDue(countdown) == countdown > 0

PushBefore_NoEviction(buffer, b_len, entry) ==
    IF b_len > 0 THEN Append(buffer, entry) ELSE buffer

\* handle_non_match: the push into the bounded leading buffer
PushBefore(buffer, b_len, entry) ==
    IF b_len > 0
    THEN Append(IF Len(buffer) = b_len THEN Tail(buffer) ELSE buffer, entry)
    ELSE buffer

handle_match_KeepsBuffer(n, mr) ==
    LET evBreak  == IF BreakNeeded(before_len, after_len, last_match_line_num, n)
                    THEN <<Ev("context_break", cur, 0, "None", "Continue", NoData)>>
                    ELSE << >>
        flushed  == BeforeFlush(before_buffer, last_match_line_num)
        evBefore == [i \in 1..Len(flushed) |->
                        Ev("context", cur, flushed[i][1], "Before", "Continue",
                           CtxData(flushed[i][2]))]
        evMatch  == <<Ev("matched", cur, n, "Match",
                         Sink_matched_ret(output_mode), mr)>>
    IN  /\ Deliver(evBreak \o evBefore \o evMatch, TRUE, cur, n, mr)
        /\ before_buffer' = before_buffer
        /\ last_match_line_num' = n
        /\ after_countdown' = after_len

handle_match(n, mr) ==
    LET evBreak  == IF BreakNeeded(before_len, after_len, last_match_line_num, n)
                    THEN <<Ev("context_break", cur, 0, "None", "Continue", NoData)>>
                    ELSE << >>
        flushed  == BeforeFlush(before_buffer, last_match_line_num)
        evBefore == [i \in 1..Len(flushed) |->
                        Ev("context", cur, flushed[i][1], "Before", "Continue",
                           CtxData(flushed[i][2]))]
        evMatch  == <<Ev("matched", cur, n, "Match",
                         Sink_matched_ret(output_mode), mr)>>
    IN  /\ Deliver(evBreak \o evBefore \o evMatch, TRUE, cur, n, mr)
        /\ before_buffer' = << >>
        /\ last_match_line_num' = n
        /\ after_countdown' = after_len

handle_non_match_NoCountdown(n) ==
    LET due == AfterDue(after_countdown)
        evAfter == IF due
                   THEN <<Ev("context", cur, n, "After", "Continue",
                              CtxData(Content(cur, n)))>>
                   ELSE << >>
    IN  /\ Deliver(evAfter, FALSE, cur, n, NoData)
        /\ last_match_line_num' = IF due THEN n ELSE last_match_line_num
        /\ after_countdown' = after_countdown
        /\ before_buffer' = PushBefore(before_buffer, before_len, <<n, Content(cur, n)>>)

handle_non_match(n) ==
    LET due == AfterDue(after_countdown)
        evAfter == IF due
                   THEN <<Ev("context", cur, n, "After", "Continue",
                              CtxData(Content(cur, n)))>>
                   ELSE << >>
    IN  /\ Deliver(evAfter, FALSE, cur, n, NoData)
        /\ last_match_line_num' = IF due THEN n ELSE last_match_line_num
        /\ after_countdown' = IF due THEN after_countdown - 1 ELSE after_countdown
        /\ before_buffer' = PushBefore(before_buffer, before_len, <<n, Content(cur, n)>>)

NewStream_KeepsContext(path) ==
    /\ cur' = path
    /\ line_num' = 0
    /\ UNCHANGED cmVars
    /\ lines' = lines @@ (path :> << >>)

\* ContextManager::new, called at the top of search_stream
NewStream(path) ==
    /\ cur' = path
    /\ line_num' = 0
    /\ before_buffer' = << >>
    /\ after_countdown' = 0
    /\ last_match_line_num' = 0
    /\ lines' = lines @@ (path :> << >>)

(* ------------------------------------------------------------ App::execute *)
StdinUnsupported_Never(mode) == FALSE

\* the mode that execute refuses for standard input
StdinUnsupported(mode) == mode = "FilesWithoutMatch"

SetContext_Swapped ==
    LET ec == Config_get_effective_context(config)
    IN  /\ after_len' = ec[2]
        /\ before_len' = ec[1]

\* let (after_len, before_len) = self.config.get_effective_context()
SetContext ==
    LET ec == Config_get_effective_context(config)
    IN  /\ after_len' = ec[1]
        /\ before_len' = ec[2]

\* collect_all_files: every file below the target
collect_all_files(target) == Tree(target)

ExecutePath ==
    /\ pc = "start"
    /\ config.target # "stdin"
    /\ SetContext
    /\ all_files' = IF output_mode = "FilesWithoutMatch"
                    THEN collect_all_files(config.target) ELSE {}
    /\ sink_built' = TRUE
    /\ pc' = "walk"
    /\ UNCHANGED <<config, output_mode, auxVars, result, sinkVars, stdout, finish_calls,
                   walkVars, cur, line_num, total_read, cmVars, lines, log>>

ExecuteStdinRejected ==
    /\ pc = "start"
    /\ config.target = "stdin"
    /\ StdinUnsupported(output_mode)
    /\ SetContext
    /\ result' = "Err"
    /\ pc' = "done"
    /\ UNCHANGED <<config, output_mode, auxVars, sink_built, all_files, sinkVars, stdout,
                   finish_calls, walkVars, cur, line_num, total_read, cmVars,
                   lines, log>>

ExecuteStdin ==
    /\ pc = "start"
    /\ config.target = "stdin"
    /\ ~StdinUnsupported(output_mode)
    /\ SetContext
    /\ sink_built' = TRUE
    /\ NewStream(StdinPath)
    /\ pc' = "stream"
    /\ UNCHANGED <<config, output_mode, auxVars, result, all_files, sinkVars, stdout,
                   finish_calls, walkVars, total_read, log>>

(* ---------------------------------------------------- Searcher::search_path *)
\* an entry the walker yields: filtered as hidden, skipped as binary or as
\* impossible to open, or opened and streamed
WalkSkip(p, kind) ==
    /\ visited' = visited \cup {p}
    /\ entry_kind' = entry_kind @@ (p :> kind)
    /\ UNCHANGED <<cfgVars, pc, result, sinkVars, stdout, finish_calls, cur,
                   line_num, total_read, cmVars, lines, log>>

\* filter_entry(|e| !is_hidden(e)) drops the entry
SkipHidden ==
    /\ pc = "walk"
    /\ \E p \in Tree(config.target) \ visited : WalkSkip(p, "hidden")

\* is_binary(file_path).unwrap_or(true): continue
SkipBinary ==
    /\ pc = "walk"
    /\ \E p \in Tree(config.target) \ visited : WalkSkip(p, "binary")

\* File::open fails: the error is printed, continue
SkipOpenFail ==
    /\ pc = "walk"
    /\ \E p \in Tree(config.target) \ visited : WalkSkip(p, "openfail")

OpenStream ==
    /\ pc = "walk"
    /\ \E p \in Tree(config.target) \ visited :
          /\ visited' = visited \cup {p}
          /\ entry_kind' = entry_kind @@ (p :> "text")
          /\ NewStream(p)
    /\ pc' = "stream"
    /\ UNCHANGED <<cfgVars, result, sinkVars, stdout, finish_calls, total_read,
                   log>>

(* -------------------------------------------------- Searcher::search_stream *)
Classify(c) == lines' = [lines EXCEPT ![cur] = Append(@, c)]

StreamMatch ==
    /\ pc = "stream"
    /\ total_read < MaxLines
    /\ line_num' = line_num + 1
    /\ total_read' = total_read + 1
    /\ Classify("M")
    /\ handle_match(line_num + 1, MR_Line(Content(cur, line_num + 1)))
    /\ UNCHANGED <<cfgVars, pc, result, finish_calls, walkVars, cur>>

StreamNonMatch ==
    /\ pc = "stream"
    /\ total_read < MaxLines
    /\ line_num' = line_num + 1
    /\ total_read' = total_read + 1
    /\ Classify("N")
    /\ handle_non_match(line_num + 1)
    /\ UNCHANGED <<cfgVars, pc, result, finish_calls, walkVars, cur>>

\* line_res? fails: search_stream, search_path / search_reader and execute
\* all return the error, and the finish call of execute is not reached
StreamReadError ==
    /\ pc = "stream"
    /\ Classify("E")
    /\ result' = "Err"
    /\ pc' = "done"
    /\ UNCHANGED <<cfgVars, sinkVars, stdout, finish_calls, walkVars, cur,
                   line_num, total_read, cmVars, log>>

\* the reader of a file is exhausted: back in the walker's loop
StreamEndFile ==
    /\ pc = "stream"
    /\ config.target # "stdin"
    /\ pc' = "walk"
    /\ UNCHANGED <<cfgVars, result, sinkVars, stdout, finish_calls, walkVars,
                   cur, line_num, total_read, cmVars, lines, log>>

CallFinish ==
    /\ stdout' = stdout \o Sink_finish(output_mode)
    /\ log' = Append(log, Ev("finish", NoPath, 0, "None", "None", NoData))
    /\ finish_calls' = finish_calls + 1
    /\ result' = "Ok"
    /\ pc' = "done"

\* standard input is exhausted: search_reader returns Ok, then finish
StreamEndStdin ==
    /\ pc = "stream"
    /\ config.target = "stdin"
    /\ CallFinish
    /\ UNCHANGED <<cfgVars, sinkVars, walkVars, cur, line_num, total_read,
                   cmVars, lines>>

\* the walker is exhausted: search_path returns Ok, then finish
WalkEnd ==
    /\ pc = "walk"
    /\ visited = Tree(config.target)
    /\ CallFinish
    /\ UNCHANGED <<cfgVars, sinkVars, walkVars, cur, line_num, total_read,
                   cmVars, lines>>

Next ==
    \/ ExecutePath
    \/ ExecuteStdinRejected
    \/ ExecuteStdin
    \/ SkipHidden
    \/ SkipBinary
    \/ SkipOpenFail
    \/ OpenStream
    \/ StreamMatch
    \/ StreamNonMatch
    \/ StreamReadError
    \/ StreamEndFile
    \/ StreamEndStdin
    \/ WalkEnd

Spec == Init /\ [][Next]_vars

(* ------------------------------------------- a sink that is driven directly *)
\* a Sink built by SearcherBuilder::build_sink for a directory target and
\* then called in any order; a file name may be invalid UTF-8
SinkInit ==
    /\ config = [target |-> "dir", context |-> 0, after_context |-> 0,
                 before_context |-> 0]
    /\ output_mode \in OutputMode
    /\ pc = "sink"
    /\ result = "none"
    /\ before_len = 0
    /\ after_len = 0
    /\ sink_built = TRUE
    /\ all_files = IF output_mode = "FilesWithoutMatch" THEN Paths ELSE {}
    /\ files_with_matches = {}
    /\ matched_files = {}
    /\ counts = << >>
    /\ matches = << >>
    /\ stdout = << >>
    /\ finish_calls = 0
    /\ visited = {}
    /\ entry_kind = << >>
    /\ cur = StdinPath
    /\ line_num = 0
    /\ total_read = 0
    /\ before_buffer = << >>
    /\ after_countdown = 0
    /\ last_match_line_num = 0
    /\ lines = << >>
    /\ log = << >>
    /\ non_utf8 \in {{}, {NumPaths}}
    /\ NoSearch

\* the result of a matcher for line n of path p: the whole line (f = 0) or
\* f fragments of it
SomeResult(p, n, f) ==
    IF f = 0 THEN MR_Line(Content(p, n))
    ELSE MR_Content([k \in 1..f |-> <<p, n, k>>])

SinkMatched ==
    /\ pc = "sink"
    /\ Len(log) < MaxCalls
    /\ \E p \in Paths, f \in 0..MaxFrag :
          LET n  == Len(log) + 1
              mr == SomeResult(p, n, f)
          IN  Deliver(<<Ev("matched", p, n, "Match",
                           Sink_matched_ret(output_mode), mr)>>, TRUE, p, n, mr)
    /\ UNCHANGED <<cfgVars, pc, result, finish_calls, walkVars, cur, line_num,
                   total_read, cmVars, lines>>

SinkContext ==
    /\ pc = "sink"
    /\ Len(log) < MaxCalls
    /\ \E p \in Paths, kind \in {"Before", "After"} :
          LET n == Len(log) + 1
          IN  Deliver(<<Ev("context", p, n, kind, "Continue",
                           CtxData(Content(p, n)))>>, FALSE, p, n, NoData)
    /\ UNCHANGED <<cfgVars, pc, result, finish_calls, walkVars, cur, line_num,
                   total_read, cmVars, lines>>

SinkContextBreak ==
    /\ pc = "sink"
    /\ Len(log) < MaxCalls
    /\ Deliver(<<Ev("context_break", NoPath, 0, "None", "Continue", NoData)>>,
               FALSE, NoPath, 0, NoData)
    /\ UNCHANGED <<cfgVars, pc, result, finish_calls, walkVars, cur, line_num,
                   total_read, cmVars, lines>>

SinkFinish ==
    /\ pc = "sink"
    /\ CallFinish
    /\ UNCHANGED <<cfgVars, sinkVars, walkVars, cur, line_num, total_read,
                   cmVars, lines>>

SinkNext ==
    \/ SinkMatched
    \/ SinkContext
    \/ SinkContextBreak
    \/ SinkFinish

SpecSink == SinkInit /\ [][SinkNext]_vars

(* ----------------------------------------------- a matcher called directly *)
\* the pipeline is not running
NoRun ==
    /\ config = [target |-> "file", context |-> 0, after_context |-> 0,
                 before_context |-> 0]
    /\ output_mode = "Standard"
    /\ pc = "idle"
    /\ result = "none"
    /\ before_len = 0
    /\ after_len = 0
    /\ sink_built = FALSE
    /\ all_files = {}
    /\ files_with_matches = {}
    /\ matched_files = {}
    /\ counts = << >>
    /\ matches = << >>
    /\ stdout = << >>
    /\ finish_calls = 0
    /\ visited = {}
    /\ entry_kind = << >>
    /\ cur = StdinPath
    /\ line_num = 0
    /\ total_read = 0
    /\ before_buffer = << >>
    /\ after_countdown = 0
    /\ last_match_line_num = 0
    /\ lines = << >>
    /\ log = << >>
    /\ non_utf8 = {}

runVars == <<config, output_mode, pc, result, before_len, after_len,
             sink_built, all_files, files_with_matches, matched_files, counts,
             matches, stdout, finish_calls, visited, entry_kind, cur,
             line_num, total_read, before_buffer, after_countdown,
             last_match_line_num, lines, log, non_utf8>>

\* a matcher over a pattern that compiled, about to be given one line
MatcherInit ==
    /\ NoRun
    /\ query \in {q \in SeqsUpTo(QueryChars, MaxQuery) : Regex_new(q).ok}
    /\ ignore_case = FALSE
    /\ invert_match \in BOOLEAN
    /\ re = Regex_new(query).atoms
    /\ input_line \in SeqsUpTo(TextChars, MaxLine)
    /\ contents = << >>
    /\ found = NotCalled

DefaultFind ==
    /\ found = NotCalled
    /\ found' = [fn |-> "DefaultMatcher",
                 ret |-> DefaultMatcher_find(re, invert_match, input_line)]
    /\ UNCHANGED <<runVars, reVars>>

OnlyMatchingFind ==
    /\ found = NotCalled
    /\ found' = [fn |-> "OnlyMatchingMatcher",
                 ret |-> OnlyMatchingMatcher_find(re, input_line)]
    /\ UNCHANGED <<runVars, reVars>>

MatcherNext ==
    \/ DefaultFind
    \/ OnlyMatchingFind

SpecMatcher == MatcherInit /\ [][MatcherNext]_vars

(* ------------------------------------------------------ lib.rs: search() *)
RECURSIVE str_lines(_)
\* str::lines(): the text between line feeds; a final line feed does not
\* start another line
str_lines(c) ==
    IF c = << >> THEN << >>
    ELSE LET nl == {i \in DOMAIN c : c[i] = NewLine}
         IN  IF nl = {} THEN <<c>>
             ELSE <<SubSeq(c, 1, Min(nl) - 1)>>
                  \o str_lines(SubSeq(c, Min(nl) + 1, Len(c)))

search_CaseSensitive(q, c, ic, inv) ==
    LET regex == RegexBuilder_build(q, FALSE)
        ls    == str_lines(c)
        kept  == SortedSeq({i \in DOMAIN ls :
                              Regex_is_match(regex.atoms, ls[i]) # inv})
    IN  IF ~regex.ok THEN [ok |-> FALSE, matches |-> << >>]
        ELSE [ok |-> TRUE,
              matches |-> [k \in 1..Len(kept) |->
                             [line_number |-> kept[k], content |-> ls[kept[k]]]]]

search(q, c, ic, inv) ==
    LET regex == RegexBuilder_build(q, ic)
        ls    == str_lines(c)
        kept  == SortedSeq({i \in DOMAIN ls :
                              IF inv THEN ~Regex_is_match(regex.atoms, ls[i])
                              ELSE Regex_is_match(regex.atoms, ls[i])})
    IN  IF ~regex.ok THEN [ok |-> FALSE, matches |-> << >>]
        ELSE [ok |-> TRUE,
              matches |-> [k \in 1..Len(kept) |->
                             [line_number |-> kept[k], content |-> ls[kept[k]]]]]

\* the inputs of the scenarios and of the tests of lib.rs
Query_duct == <<"d", "u", "c", "t">>
Query_rUsT == <<"r", "U", "s", "T">>
Contents_DuctTape ==
    <<"R", "u", "s", "t", ":", NewLine, "s", "a", "f", "e", ",", " ", "f",
      "a", "s", "t", ",", " ", "p", "r", "o", "d", "u", "c", "t", "i", "v",
      "e", ".", NewLine, "P", "i", "c", "k", " ", "t", "h", "r", "e", "e",
      ".", NewLine, "D", "u", "c", "t", " ", "t", "a", "p", "e", ".">>
Contents_TrustMe ==
    <<"R", "u", "s", "t", ":", NewLine, "s", "a", "f", "e", ",", " ", "f",
      "a", "s", "t", ",", " ", "p", "r", "o", "d", "u", "c", "t", "i", "v",
      "e", ".", NewLine, "P", "i", "c", "k", " ", "t", "h", "r", "e", "e",
      ".", NewLine, "T", "r", "u", "s", "t", " ", "m", "e", ".">>

SearchInputs ==
    (SeqsUpTo(QueryChars, MaxQuery)
        \X SeqsUpTo(TextChars \cup {NewLine}, MaxText))
    \cup ({Query_duct, Query_rUsT} \X {Contents_DuctTape, Contents_TrustMe})

SearchInit ==
    /\ NoRun
    /\ \E in \in SearchInputs : query = in[1] /\ contents = in[2]
    /\ ignore_case \in BOOLEAN
    /\ invert_match \in BOOLEAN
    /\ re = << >>
    /\ input_line = << >>
    /\ found = NotCalled

CallSearch ==
    /\ found = NotCalled
    /\ found' = [fn |-> "search",
                 ret |-> search(query, contents, ignore_case, invert_match)]
    /\ UNCHANGED <<runVars, reVars>>

SearchNext == CallSearch

SpecSearch == SearchInit /\ [][SearchNext]_vars

(* --------------------------------------------------------- lib.rs: run() *)
\* config.path is a file, a directory, or neither
RunTargets == {"file", "dir", "missing"}

\* the target and the -l and -o flags of the command line
RunConfigs ==
    [target : RunTargets, files_with_matches : BOOLEAN, only_matching : BOOLEAN]

\* what a file that can be read may hold
SomeContents == {<< >>, <<"a">>, <<"b", NewLine, "a">>}

\* the command lines clap accepts (-v conflicts with -o)
RunInit ==
    /\ config \in RunConfigs
    /\ query \in SeqsUpTo(QueryChars, MaxQuery)
    /\ ignore_case = FALSE
    /\ invert_match \in IF config.only_matching THEN {FALSE} ELSE BOOLEAN
    /\ re = << >>
    /\ input_line = << >>
    /\ contents = << >>
    /\ found = NotCalled
    /\ output_mode = "Standard"
    /\ pc = "run"
    /\ result = "none"
    /\ before_len = 0
    /\ after_len = 0
    /\ sink_built = FALSE
    /\ all_files = {}
    /\ files_with_matches = {}
    /\ matched_files = {}
    /\ counts = << >>
    /\ matches = << >>
    /\ stdout = << >>
    /\ finish_calls = 0
    /\ visited = {}
    /\ entry_kind = << >>
    /\ cur = StdinPath
    /\ line_num = 0
    /\ total_read = 0
    /\ before_buffer = << >>
    /\ after_countdown = 0
    /\ last_match_line_num = 0
    /\ lines = << >>
    /\ log = << >>
    /\ non_utf8 = {}

RunUnchanged ==
    UNCHANGED <<config, output_mode, before_len, after_len, sink_built,
                all_files, sinkVars, finish_calls, cur, line_num, total_read,
                cmVars, lines, log, non_utf8, query, ignore_case,
                invert_match, input_line>>

\* run: without -l the pattern is compiled first, and a failure is returned
RunPatternError ==
    /\ pc = "run"
    /\ ~config.files_with_matches
    /\ ~RegexBuilder_build(query, ignore_case).ok
    /\ pc' = "done"
    /\ result' = "Err"
    /\ UNCHANGED <<re, contents, found, stdout, walkVars>>
    /\ RunUnchanged

\* run: the path is neither a directory nor a file
RunInvalidPath ==
    /\ pc = "run"
    /\ config.files_with_matches \/ RegexBuilder_build(query, ignore_case).ok
    /\ config.target = "missing"
    /\ pc' = "done"
    /\ result' = "Err"
    /\ re' = IF config.files_with_matches THEN << >>
             ELSE RegexBuilder_build(query, ignore_case).atoms
    /\ UNCHANGED <<contents, found, stdout, walkVars>>
    /\ RunUnchanged

\* run: with -l no pattern is compiled (main_regex is None); the directory is
\* walked or the file processed
RunEnter ==
    /\ pc = "run"
    /\ config.files_with_matches \/ RegexBuilder_build(query, ignore_case).ok
    /\ config.target \in {"file", "dir"}
    /\ pc' = "walking"
    /\ re' = IF config.files_with_matches THEN << >>
             ELSE RegexBuilder_build(query, ignore_case).atoms
    /\ UNCHANGED <<result, contents, found, stdout, walkVars>>
    /\ RunUnchanged

\* the next entry of the walk, not processed yet
NextEntry(p) ==
    /\ pc = "walking"
    /\ visited # Tree(config.target)
    /\ p = Min(Tree(config.target) \ visited)

\* process_path: read_to_string fails, the file is passed over
ProcessUnreadable ==
    /\ \E p \in Paths :
          /\ NextEntry(p)
          /\ visited' = visited \cup {p}
          /\ entry_kind' = [q \in visited \cup {p} |->
                              IF q = p THEN "openfail" ELSE entry_kind[q]]
    /\ UNCHANGED <<pc, result, re, contents, found, stdout>>
    /\ RunUnchanged

\* process_path with -l: search compiles the pattern after the file was
\* read, and its error is returned by run
ProcessListingError ==
    /\ config.files_with_matches
    /\ \E p \in Paths, c \in SomeContents :
          /\ NextEntry(p)
          /\ ~search(query, c, ignore_case, invert_match).ok
          /\ visited' = visited \cup {p}
          /\ entry_kind' = [q \in visited \cup {p} |->
                              IF q = p THEN "text" ELSE entry_kind[q]]
          /\ contents' = c
          /\ found' = [fn |-> "search",
                       ret |-> search(query, c, ignore_case, invert_match)]
    /\ pc' = "done"
    /\ result' = "Err"
    /\ UNCHANGED <<re, stdout>>
    /\ RunUnchanged

\* process_path with -l: the path is printed when search returns a line
ProcessListing ==
    /\ config.files_with_matches
    /\ \E p \in Paths, c \in SomeContents :
          LET results == search(query, c, ignore_case, invert_match)
          IN  /\ NextEntry(p)
              /\ results.ok
              /\ visited' = visited \cup {p}
              /\ entry_kind' = [q \in visited \cup {p} |->
                                  IF q = p THEN "text" ELSE entry_kind[q]]
              /\ contents' = c
              /\ found' = [fn |-> "search", ret |-> results]
              /\ stdout' = IF results.matches # << >>
                           THEN Append(stdout, [tag |-> "file", prefix |-> <<p>>,
                                                text |-> << >>])
                           ELSE stdout
    /\ UNCHANGED <<pc, result, re>>
    /\ RunUnchanged

RECURSIVE PrintedLines(_, _, _, _, _)
\* the lines process_path prints for the lines i.. of a file: every fragment
\* with -o, else the lines that match (or do not, with -v)
PrintedLines(ls, i, r, om, inv) ==
    IF i > Len(ls) THEN << >>
    ELSE LET frags == Regex_find_iter(r, ls[i], 0)
             is_match == Regex_is_match(r, ls[i])
             here ==
                IF om
                THEN [k \in DOMAIN frags |->
                        [tag |-> "line", prefix |-> <<i>>, text |-> frags[k]]]
                ELSE IF (is_match /\ ~inv) \/ (~is_match /\ inv)
                THEN <<[tag |-> "line", prefix |-> <<i>>,
                        text |-> [line |-> ls[i], highlighted |-> ~inv]]>>
                ELSE << >>
         IN  here \o PrintedLines(ls, i + 1, r, om, inv)

\* process_path without -l: the matching lines are printed, below the path
\* and followed by an empty line when a directory is walked
ProcessLines ==
    /\ ~config.files_with_matches
    /\ \E p \in Paths, c \in SomeContents :
          LET body == PrintedLines(str_lines(c), 1, re, config.only_matching,
                                   invert_match)
          IN  /\ NextEntry(p)
              /\ visited' = visited \cup {p}
              /\ entry_kind' = [q \in visited \cup {p} |->
                                  IF q = p THEN "text" ELSE entry_kind[q]]
              /\ contents' = c
              /\ stdout' =
                   IF body = << >> THEN stdout
                   ELSE IF config.target = "dir"
                   THEN stdout
                        \o <<[tag |-> "file", prefix |-> <<p>>, text |-> << >>]>>
                        \o body
                        \o <<[tag |-> "blank", prefix |-> << >>, text |-> << >>]>>
                   ELSE stdout \o body
    /\ UNCHANGED <<pc, result, re, found>>
    /\ RunUnchanged

\* every entry was processed: run returns Ok
RunEnd ==
    /\ pc = "walking"
    /\ visited = Tree(config.target)
    /\ pc' = "done"
    /\ result' = "Ok"
    /\ UNCHANGED <<re, contents, found, stdout, walkVars>>
    /\ RunUnchanged

RunNext ==
    \/ RunPatternError
    \/ RunInvalidPath
    \/ RunEnter
    \/ ProcessUnreadable
    \/ ProcessListingError
    \/ ProcessListing
    \/ ProcessLines
    \/ RunEnd

SpecRun == RunInit /\ [][RunNext]_vars

(* ------------------------------------- execute up to ContextManager::new *)
\* every command line: -A, -B and -C may all be given together
AllConfigs ==
    [target : Targets, context : 0..MaxCtx, after_context : 0..MaxCtx,
     before_context : 0..MaxCtx]

ContextInit ==
    /\ config \in AllConfigs
    /\ output_mode \in OutputMode
    /\ pc = "start"
    /\ result = "none"
    /\ before_len = 0
    /\ after_len = 0
    /\ sink_built = FALSE
    /\ all_files = {}
    /\ files_with_matches = {}
    /\ matched_files = {}
    /\ counts = << >>
    /\ matches = << >>
    /\ stdout = << >>
    /\ finish_calls = 0
    /\ visited = {}
    /\ entry_kind = << >>
    /\ cur = StdinPath
    /\ line_num = 0
    /\ total_read = 0
    /\ before_buffer = << >>
    /\ after_countdown = 0
    /\ last_match_line_num = 0
    /\ lines = << >>
    /\ log = << >>
    /\ non_utf8 = {}
    /\ NoSearch

\* execute and the construction of the ContextManager of the first stream
ContextNext ==
    \/ ExecutePath
    \/ ExecuteStdinRejected
    \/ ExecuteStdin
    \/ OpenStream

SpecContext == ContextInit /\ [][ContextNext]_vars

(* ---------------------------------------------- the default output mode *)
\* a run without any of --json, -c, -l and -L: Config::output_mode falls
\* through to OutputMode::Standard and the sink is a StandardSink
StandardInit == Init /\ output_mode = "Standard"

\* execute in the standard mode: the refusal of -L on stdin cannot happen
StandardNext ==
    \/ ExecutePath
    \/ ExecuteStdin
    \/ SkipHidden
    \/ SkipBinary
    \/ SkipOpenFail
    \/ OpenStream
    \/ StreamMatch
    \/ StreamNonMatch
    \/ StreamReadError
    \/ StreamEndFile
    \/ StreamEndStdin
    \/ WalkEnd

SpecStandard == StandardInit /\ [][StandardNext]_vars

(* ============================================================ properties *)
Events == DOMAIN log
MatchedAt(i) == log[i].ev = "matched"
BreakAt(i)   == log[i].ev = "context_break"
LineAt(i)    == log[i].ev \in {"matched", "context"}

\* i and j are two consecutive matched calls of one stream
ConsecMatched(i, j) ==
    /\ i < j
    /\ MatchedAt(i) /\ MatchedAt(j)
    /\ log[i].path = log[j].path
    /\ \A k \in (i+1)..(j-1) : ~MatchedAt(k)

BreaksBetween(i, j) == Cardinality({k \in (i+1)..(j-1) : BreakAt(k)})

ContextEnabled == before_len > 0 \/ after_len > 0

\* C1: with context enabled, two consecutive matches at lines N1 < N2 of one
\* stream have exactly one context_break between them iff N2 > N1 + A + 1,
\* and none otherwise.
C1_BreakIffGapExceedsA ==
    \A i, j \in Events :
        (ConsecMatched(i, j) /\ ContextEnabled) =>
            BreaksBetween(i, j) =
                (IF log[j].line > log[i].line + after_len + 1 THEN 1 ELSE 0)

(* ----------------------------------------------------------------- C2 *)
\* the Before lines delivered for the matched call j
BeforeOf(j) ==
    {log[k].line : k \in {k \in 1..(j-1) :
        /\ log[k].kind = "Before"
        /\ log[k].path = log[j].path
        /\ \A m \in (k+1)..(j-1) : ~MatchedAt(m)}}

\* line L of the stream of call j was delivered as After context before j
AfterEarlier(L, j) ==
    \E k \in 1..(j-1) : /\ log[k].path = log[j].path
                        /\ log[k].line = L
                        /\ log[k].kind = "After"

\* line L of the stream of call j was delivered before the handling of the
\* match of call j: as a match, or as After or Before context of an earlier
\* match
DeliveredEarlier(L, j) ==
    \E k \in 1..(j-1) :
        /\ log[k].path = log[j].path
        /\ log[k].line = L
        /\ \/ MatchedAt(k)
           \/ log[k].kind = "After"
           \/ log[k].kind = "Before" /\ \E m \in (k+1)..(j-1) : MatchedAt(m)

Window(j) == {L \in (log[j].line - before_len)..(log[j].line - 1) : L >= 1}

\* C2 as stated: the Before lines of a match at N are exactly the existing
\* lines N-B..N-1 that were not delivered as After context earlier.
C2_BeforeExactlyWindowMinusAfter ==
    \A j \in Events :
        MatchedAt(j) =>
            BeforeOf(j) = {L \in Window(j) : ~AfterEarlier(L, j)}

\* C2 amended: the Before lines of a match at N are exactly the existing
\* lines N-B..N-1 that were not delivered to the sink earlier, be it as a
\* matched line or as After or Before context of an earlier match.
C2_BeforeExactlyUndeliveredWindow ==
    \A j \in Events :
        MatchedAt(j) =>
            BeforeOf(j) = {L \in Window(j) : ~DeliveredEarlier(L, j)}

\* a match whose window holds a line shown as After context of the match
\* before it and a line delivered as Before context
C2_Witness ==
    \E j \in Events :
        /\ MatchedAt(j)
        /\ BeforeOf(j) # {}
        /\ \E L \in Window(j) : AfterEarlier(L, j)

(* ----------------------------------------------------------------- C3 *)
\* C3: within a stream every line is delivered at most once over matched,
\* Before and After calls, and delivered line numbers strictly increase.
C3_DeliveredLinesStrictlyIncrease ==
    \A i, j \in Events :
        (i < j /\ LineAt(i) /\ LineAt(j) /\ log[i].path = log[j].path) =>
            log[i].line < log[j].line

\* an After line lies in the leading window of the next match
C3_Witness ==
    \E i, j \in Events :
        /\ i < j
        /\ log[i].kind = "After"
        /\ MatchedAt(j)
        /\ log[i].path = log[j].path
        /\ log[j].line - log[i].line <= before_len
        /\ log[j].line - log[i].line >= 1

(* ----------------------------------------------------------------- C4 *)
\* C4: no context_break precedes the first matched call of its stream, and
\* at most one context_break lies between two consecutive matched calls.
C4_BreakNeverFirstAtMostOnce ==
    /\ \A k \in Events :
          BreakAt(k) => \E i \in 1..(k-1) : MatchedAt(i) /\ log[i].path = log[k].path
    /\ \A i, j \in Events : ConsecMatched(i, j) => BreaksBetween(i, j) <= 1

\* a stream whose first match lies beyond line A + 1 and that has a break
\* before a later match
C4_Witness ==
    \E i, j \in Events :
        /\ ConsecMatched(i, j)
        /\ BreaksBetween(i, j) = 1
        /\ \A k \in 1..(i-1) : ~(MatchedAt(k) /\ log[k].path = log[i].path)
        /\ log[i].line > after_len + 1

(* ----------------------------------------------------------------- C5 *)
\* C5: once matched has returned Break for a line of a file, no later line
\* of that file is classified and no further sink call is made for its path.
C5_BreakStopsTheFile ==
    \A i \in Events :
        log[i].ret = "Break" =>
            /\ \A j \in Events : j > i => log[j].path # log[i].path
            /\ Len(lines[log[i].path]) = log[i].line

(* ----------------------------------------------------------------- C6 *)
FinishAt(i) == log[i].ev = "finish"

\* C6: every run of execute that constructs a sink calls finish exactly
\* once, as the last call on the sink, also when a stream reports an error.
C6_FinishExactlyOnceAtEnd ==
    /\ finish_calls <= 1
    /\ \A i \in Events : FinishAt(i) => i = Len(log)
    /\ (pc = "done" /\ sink_built) => finish_calls = 1

(* ----------------------------------------------------------------- C7 *)
ReadFailed(p) == p \in DOMAIN lines /\ lines[p] # << >>
                 /\ lines[p][Len(lines[p])] = "E"

\* C7: after a read failure in one file of a multi-file run the run goes
\* on: it ends only when every file of the tree was yielded, with finish
\* called.
C7_ReadFailureSkipsOnlyThatFile ==
    (pc = "done" /\ config.target = "dir" /\ \E p \in Paths : ReadFailed(p)) =>
        /\ visited = Tree(config.target)
        /\ finish_calls = 1

(* ----------------------------------------------------------------- C8 *)
Skipped(p) == p \in DOMAIN entry_kind /\ entry_kind[p] \in {"binary", "openfail"}

\* C8: a file that is binary or cannot be opened gets no sink call, and the
\* run it is part of still yields every file of the tree and returns Ok.
C8_SkippedFileNotFatal ==
    \A p \in Paths :
        Skipped(p) =>
            /\ \A i \in Events : log[i].path # p
            /\ pc = "done" => (result = "Ok" /\ visited = Tree(config.target))

(* ----------------------------------------------------------------- C9 *)
MatchedPaths == {log[i].path : i \in {i \in Events : MatchedAt(i)}}
PrintedPath(i) == stdout[i].prefix[1]

\* C9: FilesWithoutMatchSink::finish prints exactly the paths of the universe
\* given at construction that received no matched call, each once, ascending.
C9_FilesWithoutMatchPrintsDifference ==
    (output_mode = "FilesWithoutMatch" /\ finish_calls = 1) =>
        /\ {PrintedPath(i) : i \in DOMAIN stdout} = all_files \ MatchedPaths
        /\ \A i, j \in DOMAIN stdout : i < j => PrintedPath(i) < PrintedPath(j)

\* finish has printed a path while another path of the universe had a match
C9_Witness ==
    /\ output_mode = "FilesWithoutMatch"
    /\ finish_calls = 1
    /\ stdout # << >>
    /\ MatchedPaths # {}

(* ---------------------------------------------------------------- C10 *)
\* C10: with standard input as the target and FilesWithoutMatch as the mode,
\* execute returns an error at once: no sink is built, no line is read and
\* finish is never called.
C10_StdinFilesWithoutMatchRejected ==
    (config.target = "stdin" /\ output_mode = "FilesWithoutMatch") =>
        /\ ~sink_built
        /\ DOMAIN lines = {}
        /\ total_read = 0
        /\ log = << >>
        /\ finish_calls = 0
        /\ pc \in {"start", "done"}
        /\ pc = "done" => result = "Err"

\* execute has returned the error for standard input with FilesWithoutMatch
C10_Witness ==
    /\ config.target = "stdin"
    /\ output_mode = "FilesWithoutMatch"
    /\ pc = "done"
    /\ result = "Err"

(* ================================================= properties of the sinks *)
MatchedCount(p) == Cardinality({i \in Events : MatchedAt(i) /\ log[i].path = p})
MatchedPathSet  == {p \in Paths : MatchedCount(p) > 0}
Printed(tag)    == SelectSeq(stdout, LAMBDA o : o.tag = tag)

(* ---------------------------------------------------------------- C11 *)
\* C11: CountSink holds for each path the number of matched calls made for
\* it (one per matched line, whatever the number of fragments; context and
\* break calls change nothing), and finish prints one path:count line per
\* path with a match, ascending, and none for a path without a match.
C11_CountIsMatchedLinesPerPath ==
    output_mode = "Count" =>
        /\ DOMAIN counts = MatchedPathSet
        /\ \A p \in MatchedPathSet : counts[p] = MatchedCount(p)
        /\ finish_calls = 1 =>
              LET cl == Printed("count")
              IN  /\ {cl[i].prefix[1] : i \in DOMAIN cl} = MatchedPathSet
                  /\ \A i, j \in DOMAIN cl :
                        i < j => cl[i].prefix[1] < cl[j].prefix[1]
                  /\ \A i \in DOMAIN cl :
                        cl[i].text[1] = MatchedCount(cl[i].prefix[1])

\* finish has printed the count of a path that was matched twice, once with
\* several fragments, with a context or break call in between
C11_Witness ==
    /\ output_mode = "Count"
    /\ finish_calls = 1
    /\ \E p \in Paths : MatchedCount(p) >= 2
    /\ \E i \in Events : MatchedAt(i) /\ Len(log[i].data.text) >= 2
    /\ \E i \in Events : log[i].ev \in {"context", "context_break"}
    /\ Printed("count") # << >>

(* ---------------------------------------------------------------- C12 *)
\* C12: CountSink::finish prints a Total line iff more than one path has a
\* matched line, and the total is the sum of the counts of all paths.
C12_TotalIffSeveralPaths ==
    (output_mode = "Count" /\ finish_calls = 1) =>
        LET tl == Printed("Total")
        IN  /\ Len(tl) = (IF Cardinality(MatchedPathSet) > 1 THEN 1 ELSE 0)
            /\ \A i \in DOMAIN tl :
                  tl[i].text[1] = Cardinality({k \in Events : MatchedAt(k)})

\* finish has printed a Total of three for two matched paths
C12_Witness ==
    /\ output_mode = "Count"
    /\ finish_calls = 1
    /\ Cardinality(MatchedPathSet) = 2
    /\ Len(Printed("Total")) = 1
    /\ Printed("Total")[1].text[1] = 3

\* finish has printed no Total for a single path matched three times
C12_WitnessSinglePath ==
    /\ output_mode = "Count"
    /\ finish_calls = 1
    /\ \E p \in Paths : MatchedCount(p) = 3
    /\ Printed("Total") = << >>

(* ---------------------------------------------------------------- C13 *)
\* C13: FilesWithMatchesSink::finish prints each path that got at least one
\* matched call exactly once, in ascending order, and no other path.
C13_FilesWithMatchesPrintsEachOnce ==
    (output_mode = "FilesWithMatches" /\ finish_calls = 1) =>
        LET fl == Printed("file")
        IN  /\ fl = stdout
            /\ {fl[i].prefix[1] : i \in DOMAIN fl} = MatchedPathSet
            /\ \A i, j \in DOMAIN fl : i < j => fl[i].prefix[1] < fl[j].prefix[1]

\* finish has printed two paths, one matched twice, the larger matched first
C13_Witness ==
    /\ output_mode = "FilesWithMatches"
    /\ finish_calls = 1
    /\ Len(stdout) = 2
    /\ \E p \in Paths : MatchedCount(p) >= 2
    /\ \E i, j \in Events : /\ i < j /\ MatchedAt(i) /\ MatchedAt(j)
                            /\ log[i].path > log[j].path

(* ---------------------------------------------------------------- C14 *)
\* the index in the log of the k-th matched call
KthMatched(k) ==
    CHOOSE i \in Events :
        MatchedAt(i) /\ Cardinality({j \in 1..i : MatchedAt(j)}) = k

\* JsonSink.matches is the sequence of the matched calls: path, line number
\* and a string for a whole line, a list of strings for fragments
JsonRecordsFollowCalls ==
    /\ Len(matches) = Cardinality({i \in Events : MatchedAt(i)})
    /\ \A k \in DOMAIN matches :
          LET e == log[KthMatched(k)]
          IN  /\ matches[k].path = e.path
              /\ matches[k].line_number = e.line
              /\ matches[k].content.text = e.data.text
              /\ e.data.kind = "Line" =>
                    /\ matches[k].content.kind = "Line"
                    /\ Len(matches[k].content.text) = 1
              /\ e.data.kind = "Content" => matches[k].content.kind = "Matches"

\* C14 as stated: one record per matched call in call order, untouched by
\* context and break calls, and finish prints the whole sequence as one
\* array ([] when it is empty).
C14_JsonPrintsAllRecords ==
    output_mode = "Json" =>
        /\ JsonRecordsFollowCalls
        /\ finish_calls = 1 =>
              stdout = <<[tag |-> "json", prefix |-> << >>, text |-> matches]>>

\* C14 amended: as stated when every recorded path is valid UTF-8; when a
\* recorded path is not, serialization fails and finish prints nothing on
\* standard output.
C14_JsonPrintsAllRecordsIfUtf8 ==
    output_mode = "Json" =>
        /\ JsonRecordsFollowCalls
        /\ finish_calls = 1 =>
              IF \A k \in DOMAIN matches : matches[k].path \notin non_utf8
              THEN stdout = <<[tag |-> "json", prefix |-> << >>,
                               text |-> matches]>>
              ELSE stdout = << >>

\* finish has printed an array holding a whole-line record and a record of
\* several fragments, with a context call made between the two
C14_Witness ==
    /\ output_mode = "Json"
    /\ finish_calls = 1
    /\ stdout # << >>
    /\ \E k \in DOMAIN matches : matches[k].content.kind = "Line"
    /\ \E k \in DOMAIN matches : /\ matches[k].content.kind = "Matches"
                                 /\ Len(matches[k].content.text) >= 2
    /\ \E i \in Events : log[i].ev = "context"

(* ============================================== properties of the matchers *)
\* the ways to cut the text l from offset s on into one run of characters
\* per atom of r: one character, or one or more for a repeated atom
Splits(r, l, s) ==
    {cut \in [0..Len(r) -> s..Len(l)] :
        /\ cut[0] = s
        /\ \A k \in 1..Len(r) :
              /\ cut[k] > cut[k - 1]
              /\ ~r[k].plus => cut[k] = cut[k - 1] + 1
              /\ \A i \in (cut[k - 1] + 1)..cut[k] :
                    r[k].any \/ l[i] \in r[k].chars}

\* the pattern occurs in l from offset s to offset e
Occurs(r, l, s, e) == \E cut \in Splits(r, l, s) : cut[Len(r)] = e
Matches(r, l) == \E s, e \in 0..Len(l) : Occurs(r, l, s, e)

\* the occurrence at s in which each repeated atom, from the left, takes as
\* much as it can
GreedySplit(r, l, s) ==
    CHOOSE c \in Splits(r, l, s) :
        \A d \in Splits(r, l, s) :
            \/ d = c
            \/ \E k \in 1..Len(r) : /\ \A j \in 1..(k - 1) : c[j] = d[j]
                                    /\ c[k] > d[k]
OccurrenceEnd(r, l, s) == GreedySplit(r, l, s)[Len(r)]
OccurrenceStarts(r, l) == {s \in 0..Len(l) : Splits(r, l, s) # {}}

\* T is the set of the starts of the occurrences taken from left to right:
\* a start is taken unless it lies inside an occurrence taken before it
LeftToRight(r, l, T) ==
    \A s \in OccurrenceStarts(r, l) :
        s \in T <=> ~\E t \in T : t < s /\ s < OccurrenceEnd(r, l, t)

(* ---------------------------------------------------------------- C15 *)
\* C15: DefaultMatcher::find returns the whole line, unmodified, iff
\* (the pattern matches the line) differs from invert_match, else none.
C15_DefaultFindIsMatchXorInvert ==
    found.fn = "DefaultMatcher" =>
        IF Matches(re, input_line) # invert_match
        THEN found.ret = [some |-> TRUE,
                          value |-> [kind |-> "Line", text |-> <<input_line>>]]
        ELSE found.ret = [some |-> FALSE]

\* an inverting matcher has returned a line that the pattern, which has a
\* repeated atom, does not match
C15_Witness ==
    /\ found.fn = "DefaultMatcher"
    /\ invert_match
    /\ \E k \in DOMAIN re : re[k].plus
    /\ Len(input_line) >= 2
    /\ ~Matches(re, input_line)
    /\ found.ret.some

\* a matcher that does not invert has returned a line the pattern matches
C15_WitnessPlain ==
    /\ found.fn = "DefaultMatcher"
    /\ ~invert_match
    /\ Len(re) = 2
    /\ Matches(re, input_line)
    /\ found.ret.some

(* ---------------------------------------------------------------- C16 *)
\* C16: OnlyMatchingMatcher::find returns the occurrences of the pattern
\* in the line taken from left to right without overlap, each verbatim and
\* in order, and none (never an empty list) when there is no occurrence.
C16_OnlyMatchingFindIsOccurrences ==
    found.fn = "OnlyMatchingMatcher" =>
        \E T \in SUBSET OccurrenceStarts(re, input_line) :
            /\ LeftToRight(re, input_line, T)
            /\ LET order == SortedSeq(T)
               IN  IF T = {} THEN found.ret = [some |-> FALSE]
                   ELSE /\ found.ret.some
                        /\ found.ret.value.kind = "Content"
                        /\ found.ret.value.text =
                             [k \in 1..Len(order) |->
                                SubSeq(input_line, order[k] + 1,
                                       OccurrenceEnd(re, input_line, order[k]))]

\* find has returned two fragments, one of several characters, and has left
\* out an occurrence that overlaps one of them
C16_Witness ==
    /\ found.fn = "OnlyMatchingMatcher"
    /\ found.ret.some
    /\ Len(found.ret.value.text) >= 2
    /\ \E k \in DOMAIN found.ret.value.text : Len(found.ret.value.text[k]) >= 2
    /\ \E T \in SUBSET OccurrenceStarts(re, input_line) :
          /\ LeftToRight(re, input_line, T)
          /\ T # OccurrenceStarts(re, input_line)

\* find has returned none for a line without an occurrence
C16_WitnessNone ==
    /\ found.fn = "OnlyMatchingMatcher"
    /\ Len(input_line) >= 2
    /\ ~found.ret.some

(* ================================================== properties of search() *)
\* the offsets of the line feeds of c, and the n-th of them (0 for n = 0)
LineFeeds(c) == {i \in DOMAIN c : c[i] = NewLine}
NthLineFeed(c, n) ==
    IF n = 0 THEN 0
    ELSE CHOOSE i \in LineFeeds(c) :
            Cardinality({j \in LineFeeds(c) : j <= i}) = n

\* the number of lines of c and the text of its n-th line
NumLines(c) ==
    Cardinality(LineFeeds(c))
        + (IF c # << >> /\ c[Len(c)] # NewLine THEN 1 ELSE 0)
LineText(c, n) ==
    SubSeq(c, NthLineFeed(c, n - 1) + 1,
           IF n <= Cardinality(LineFeeds(c)) THEN NthLineFeed(c, n) - 1
           ELSE Len(c))

ToLower(ch) ==
    IF \E i \in 1..26 : UpperCase[i] = ch
    THEN LowerCase[CHOOSE i \in 1..26 : UpperCase[i] = ch] ELSE ch
ToLowerSeq(w) == [i \in DOMAIN w |-> ToLower(w[i])]

RECURSIVE Live(_, _, _)
\* the numbers k such that the atoms 1..k of r match a piece of l that ends
\* at offset i
Live(r, l, i) ==
    IF i = 0 THEN {0}
    ELSE LET before == Live(r, l, i - 1)
         IN  {0} \cup {k \in 1..Len(r) :
                         /\ r[k].any \/ l[i] \in r[k].chars
                         /\ k - 1 \in before \/ (r[k].plus /\ k \in before)}

\* the pattern r is found somewhere in l
FoundIn(r, l) == \E i \in 0..Len(l) : Len(r) \in Live(r, l, i)

\* line n of the contents is one that search has to return
Wanted(n) ==
    LET l == LineText(contents, n)
    IN  (IF ignore_case
         THEN FoundIn(Regex_new(ToLowerSeq(query)).atoms, ToLowerSeq(l))
         ELSE FoundIn(Regex_new(query).atoms, l)) # invert_match

LineNumbers(ms) == [k \in DOMAIN ms |-> ms[k].line_number]

(* ---------------------------------------------------------------- C17 *)
\* C17: search returns exactly the lines for which (the pattern matches the
\* line, ignoring case when ignore_case) differs from invert_match, in
\* ascending order, each with its 1-based number and its text unmodified
\* (a query that is no pattern gives an error).
C17_SearchReturnsWantedLines ==
    found.fn = "search" =>
        IF Regex_new(query).ok
        THEN LET ms == found.ret.matches
             IN  /\ found.ret.ok
                 /\ {ms[k].line_number : k \in DOMAIN ms}
                      = {n \in 1..NumLines(contents) : Wanted(n)}
                 /\ \A j, k \in DOMAIN ms :
                       j < k => ms[j].line_number < ms[k].line_number
                 /\ \A k \in DOMAIN ms :
                       ms[k].content = LineText(contents, ms[k].line_number)
        ELSE ~found.ret.ok

\* search has returned the second of three lines, matched only through
\* case folding
C17_Witness ==
    /\ found.fn = "search"
    /\ found.ret.ok
    /\ ignore_case
    /\ ~invert_match
    /\ NumLines(contents) >= 2
    /\ LineNumbers(found.ret.matches) = <<2>>
    /\ ~FoundIn(Regex_new(query).atoms, LineText(contents, 2))

\* an inverting search has returned a line and left out another
C17_WitnessInvert ==
    /\ found.fn = "search"
    /\ found.ret.ok
    /\ invert_match
    /\ NumLines(contents) >= 2
    /\ Len(found.ret.matches) = 1

(* ---------------------------------------------------------------- C18 *)
\* search was called on the four lines ending in "Duct tape." with the
\* pattern rUsT, ignoring case, not inverting
RustInDuctTape ==
    /\ found.fn = "search"
    /\ query = Query_rUsT
    /\ contents = Contents_DuctTape
    /\ ignore_case
    /\ ~invert_match

\* C18 as stated: the matched lines of that search are lines 1 and 4.
C18_RustMatchesLines1And4 ==
    RustInDuctTape => LineNumbers(found.ret.matches) = <<1, 4>>

\* C18 amended: the matched lines of that search are line 1 ("Rust:") only;
\* "Duct tape." does not hold the pattern.
C18_RustMatchesLine1Only ==
    RustInDuctTape =>
        /\ found.ret.ok
        /\ found.ret.matches =
             <<[line_number |-> 1, content |-> <<"R", "u", "s", "t", ":">>]>>

C18_Witness == RustInDuctTape /\ found.ret.ok

\* the input of the test of lib.rs, whose fourth line is "Trust me.", does
\* give lines 1 and 4
C18_WitnessTrustMe ==
    /\ found.fn = "search"
    /\ query = Query_rUsT
    /\ contents = Contents_TrustMe
    /\ ignore_case
    /\ ~invert_match
    /\ LineNumbers(found.ret.matches) = <<1, 4>>

(* ====================================================== properties of run() *)
FilesRead == {p \in visited : entry_kind[p] = "text"}

(* ---------------------------------------------------------------- C19 *)
\* C19: when the pattern is invalid, whatever the target and the flags, no
\* file is ever read, nothing is printed, and run returns an error.
C19_InvalidPatternFailsAtStartup ==
    ~Regex_new(query).ok =>
        /\ FilesRead = {}
        /\ stdout = << >>
        /\ pc = "done" => result = "Err"

(* ---------------------------------------------------------------- C20 *)
ContextAt(i, kind) == log[i].ev = "context" /\ log[i].kind = kind

\* C20: context never spans file boundaries. A stream starts with an empty
\* leading buffer, a zero countdown and no previous match; an After line
\* follows a match of its own file by at most after_len lines; a Before line
\* is followed, in the same file, by the match it leads to; every context
\* call carries a line read from the file it names; a context_break comes
\* after a match of its own file.
C20_ContextStaysInsideItsFile ==
    /\ (pc = "stream" /\ line_num = 0) =>
          /\ before_buffer = << >>
          /\ after_countdown = 0
          /\ last_match_line_num = 0
    /\ \A i \in Events :
          /\ ContextAt(i, "After") =>
                \E j \in 1..(i - 1) :
                    /\ MatchedAt(j)
                    /\ log[j].path = log[i].path
                    /\ log[j].line < log[i].line
                    /\ log[i].line <= log[j].line + after_len
                    /\ \A k \in j..i : log[k].path = log[i].path
          /\ ContextAt(i, "Before") =>
                \E j \in (i + 1)..Len(log) :
                    /\ MatchedAt(j)
                    /\ log[j].path = log[i].path
                    /\ log[i].line < log[j].line
                    /\ log[j].line <= log[i].line + before_len
                    /\ \A k \in i..j : log[k].path = log[i].path
          /\ log[i].ev = "context" =>
                /\ log[i].path \in DOMAIN lines
                /\ log[i].line \in DOMAIN lines[log[i].path]
                /\ lines[log[i].path][log[i].line] = "N"
                /\ log[i].data.text = <<Content(log[i].path, log[i].line)>>
          /\ BreakAt(i) =>
                \E j \in 1..(i - 1) : MatchedAt(j) /\ log[j].path = log[i].path

\* a directory run with both kinds of context: the first file ended on a
\* match, the second file begins with a line that does not match, which was
\* then delivered as Before context of a match of the second file
C20_Witness ==
    /\ config.target = "dir"
    /\ after_len >= 1
    /\ before_len >= 1
    /\ {1, 2} \subseteq DOMAIN lines
    /\ lines[1] # << >>
    /\ lines[1][Len(lines[1])] = "M"
    /\ Len(lines[2]) >= 2
    /\ lines[2][1] = "N"
    /\ \E i \in Events : ContextAt(i, "Before") /\ log[i].path = 2 /\ log[i].line = 1

(* ---------------------------------------------------------------- C21 *)
\* i and j are two calls of one stream that deliver a line, with no other
\* line delivered between them
ConsecLines(i, j) ==
    /\ i < j
    /\ LineAt(i) /\ LineAt(j)
    /\ log[i].path = log[j].path
    /\ \A k \in (i+1)..(j-1) : ~LineAt(k)

\* C21: with context enabled, a context_break lies between two lines of one
\* stream delivered consecutively iff their line numbers are not consecutive.
C21_BreakIffLinesNotAdjacent ==
    ContextEnabled =>
        \A i, j \in Events :
            ConsecLines(i, j) =>
                ((\E k \in (i+1)..(j-1) : BreakAt(k))
                    <=> log[j].line # log[i].line + 1)

(* ---------------------------------------------------------------- C22 *)
\* C22: the ContextManager of a stream is built with before_len = after_len
\* = C when the -C count is positive, whatever -A and -B are, and with
\* before_len = the -B count and after_len = the -A count when C = 0.
C22_EffectiveContextReachesManager ==
    pc = "stream" =>
        IF config.context > 0
        THEN before_len = config.context /\ after_len = config.context
        ELSE before_len = config.before_context
             /\ after_len = config.after_context

\* a stream was opened with -A and -B differing and no -C
C22_Witness ==
    /\ pc = "stream"
    /\ config.context = 0
    /\ config.before_context > config.after_context
    /\ config.after_context > 0
    /\ before_len = config.before_context

\* a stream was opened with a positive -C next to other -A and -B counts
C22_WitnessOverride ==
    /\ pc = "stream"
    /\ config.context > 0
    /\ config.after_context > config.context
    /\ config.before_context # config.context
    /\ config.before_context # config.after_context
    /\ before_len = config.context

(* ---------------------------------------------------------------- C23 *)
\* the lines of path p delivered by the calls of kind ev, in call order
LinesOf(p, ev) ==
    LET calls == SelectSeq(log, LAMBDA e : e.ev = ev /\ e.path = p)
    IN  [k \in DOMAIN calls |-> calls[k].line]

\* the numbers of the lines of path p that were classified as c
Classified(p, c) == {n \in DOMAIN lines[p] : lines[p][n] = c}

\* C23: with B = 0 and A = 0 the sink gets one matched call per matching
\* line, in line order, no context call and no context_break, and the
\* leading buffer stays empty and the countdown stays 0.
C23_NoContextIsPassThrough ==
    Config_get_effective_context(config) = <<0, 0>> =>
        /\ before_buffer = << >>
        /\ after_countdown = 0
        /\ \A i \in Events : log[i].ev \in {"matched", "finish"}
        /\ \A p \in DOMAIN lines :
              LinesOf(p, "matched") = SortedSeq(Classified(p, "M"))

\* a stream read without context whose lines 1 and 3 match and whose line 2
\* does not
C23_Witness ==
    /\ Config_get_effective_context(config) = <<0, 0>>
    /\ \E p \in DOMAIN lines :
          /\ Len(lines[p]) >= 3
          /\ lines[p][1] = "M" /\ lines[p][2] = "N" /\ lines[p][3] = "M"
          /\ LinesOf(p, "matched") = <<1, 3>>

(* ---------------------------------------------------------------- C24 *)
\* the calls that delivered a line of path p in the role kind (Match,
\* After, Before), and the lines they delivered
CallsInRole(p, kind) == {i \in Events : log[i].kind = kind /\ log[i].path = p}
LinesInRole(p, kind) == {log[i].line : i \in CallsInRole(p, kind)}

\* no line of path p from a to b matches
NoMatchIn(p, a, b) == \A k \in a..b : lines[p][k] # "M"

\* L is within after_len lines below the most recent match above it
TrailsMatch(p, L) ==
    \E M \in Classified(p, "M") :
        M < L /\ NoMatchIn(p, M + 1, L) /\ L - M <= after_len

\* L is within before_len lines above the next match below it
LeadsMatch(p, L) ==
    \E N \in Classified(p, "M") :
        L < N /\ NoMatchIn(p, L, N - 1) /\ N - L <= before_len

\* C24: of the lines of a stream, the sink gets every matching line as a
\* matched call, a non-matching line as After context iff it trails the
\* most recent match by at most A lines, a non-matching line as Before
\* context iff it is not After context and leads the next match by at most
\* B lines, and no other line; no line is delivered twice.
C24_DeliveredLinesAreMatchesAndWindows ==
    /\ \A p \in DOMAIN lines :
          /\ LinesInRole(p, "Match") = Classified(p, "M")
          /\ LinesInRole(p, "After") =
                {L \in Classified(p, "N") : TrailsMatch(p, L)}
          /\ LinesInRole(p, "Before") =
                {L \in Classified(p, "N") :
                    ~TrailsMatch(p, L) /\ LeadsMatch(p, L)}
    /\ \A i, j \in Events :
          (i < j /\ LineAt(i) /\ LineAt(j) /\ log[i].path = log[j].path)
              => log[i].line # log[j].line

\* a stream read with A = 1 and B = 1 whose lines 1 and 4 match: line 2 was
\* delivered as After context and line 3 as Before context
C24_Witness ==
    /\ after_len = 1
    /\ before_len = 1
    /\ \E p \in DOMAIN lines :
          /\ lines[p] = <<"M", "N", "N", "M">>
          /\ LinesInRole(p, "After") = {2}
          /\ LinesInRole(p, "Before") = {3}

\* a stream read with A = 1 and B = 0 whose lines 1 and 4 match: line 2 was
\* delivered as After context and line 3 was not delivered
C24_WitnessGap ==
    /\ after_len = 1
    /\ before_len = 0
    /\ \E p \in DOMAIN lines :
          /\ lines[p] = <<"M", "N", "N", "M">>
          /\ LinesInRole(p, "After") = {2}
          /\ LinesInRole(p, "Before") = {}

(* ---------------------------------------------------------------- C25 *)
\* C25: in every state of a stream the leading buffer holds at most B
\* entries, with consecutive ascending line numbers of non-matching lines
\* below the last match; it is empty right after a match; the countdown is
\* at most A, and is A right after a match; last_match_line_num is at most
\* the number of the last line processed.
C25_ContextManagerStateIsBounded ==
    cur \in DOMAIN lines =>
        /\ Len(before_buffer) <= before_len
        /\ \A i \in DOMAIN before_buffer :
              /\ before_buffer[i][1] \in DOMAIN lines[cur]
              /\ lines[cur][before_buffer[i][1]] = "N"
              /\ NoMatchIn(cur, before_buffer[i][1], line_num)
              /\ i > 1 => before_buffer[i][1] = before_buffer[i - 1][1] + 1
        /\ after_countdown >= 0
        /\ after_countdown <= after_len
        /\ last_match_line_num <= line_num
        /\ (line_num >= 1 /\ lines[cur][line_num] = "M") =>
              /\ before_buffer = << >>
              /\ after_countdown = after_len
              /\ last_match_line_num = line_num

\* a stream read with A = B = 2: line 1 matched, three lines followed, the
\* buffer has dropped line 2 and holds lines 3 and 4, the countdown has run
\* out
C25_Witness ==
    /\ before_len = 2
    /\ after_len = 2
    /\ cur \in DOMAIN lines
    /\ lines[cur] = <<"M", "N", "N", "N">>
    /\ Len(before_buffer) = 2
    /\ before_buffer[1][1] = 3
    /\ after_countdown = 0
    /\ last_match_line_num = 3

\* the state right after a match that followed buffered lines
C25_WitnessAfterMatch ==
    /\ before_len = 2
    /\ after_len = 1
    /\ cur \in DOMAIN lines
    /\ lines[cur] = <<"N", "N", "M">>
    /\ before_buffer = << >>
    /\ after_countdown = 1

(* ---------------------------------------------------------------- C26 *)
\* C26: the calls made for a match come in the order context_break (if
\* any), Before lines in ascending order, matched: a context_break is
\* directly followed by a Before line or the matched call of its stream and
\* never comes after a Before line of the same match, and a Before line is
\* directly followed by a later Before line or by the matched call.
C26_BreakThenBeforeThenMatch ==
    \A i \in Events :
        /\ BreakAt(i) =>
              /\ i < Len(log)
              /\ ContextAt(i + 1, "Before") \/ MatchedAt(i + 1)
              /\ log[i + 1].path = log[i].path
              /\ i > 1 => ~ContextAt(i - 1, "Before")
        /\ ContextAt(i, "Before") =>
              /\ i < Len(log)
              /\ log[i + 1].path = log[i].path
              /\ \/ MatchedAt(i + 1)
                 \/ ContextAt(i + 1, "Before") /\ log[i + 1].line > log[i].line

\* a match was delivered after a context_break and two Before lines
C26_Witness ==
    \E i \in Events :
        /\ BreakAt(i)
        /\ i + 3 \in Events
        /\ ContextAt(i + 1, "Before")
        /\ ContextAt(i + 2, "Before")
        /\ MatchedAt(i + 3)

(* ---------------------------------------------------------------- C27 *)
\* the files that search_path opened and streamed
Streamed == {p \in visited : entry_kind[p] = "text"}

\* C27: in FilesWithoutMatch mode over a directory the paths given to the
\* sink are the files the scan streams, and every path that finish prints
\* is a file that was streamed and has no matching line; a file skipped as
\* hidden or binary is not printed.
C27_PrintedFilesWereScanned ==
    (output_mode = "FilesWithoutMatch" /\ config.target = "dir"
        /\ finish_calls = 1) =>
        /\ all_files = Streamed
        /\ \A i \in DOMAIN stdout :
              /\ PrintedPath(i) \in Streamed
              /\ Classified(PrintedPath(i), "M") = {}

(* ---------------------------------------------------------------- C28 *)
\* the calls that print a line, in call order
LineCalls == SelectSeq(log, LAMBDA e : e.ev \in {"matched", "context"})

C28_WitnessSingleFile ==
    /\ output_mode = "Standard"
    /\ config.target = "file"
    /\ \E k \in DOMAIN Printed("line") :
          /\ Printed("line")[k].prefix[1].sep = ":"
          /\ Printed("line")[k].prefix[1].path = << >>
    /\ \E k \in DOMAIN Printed("line") : Printed("line")[k].prefix[1].sep = "-"

====
